---- MODULE Spec2Model ----
(***************************************************************************)
(* Room registry (RoomManager) and signaling router (SignalingHandler) of  *)
(* the whisp WebSocket signaling server, with the socket.io transport the  *)
(* router emits through.                                                   *)
(*                                                                         *)
(* Identifiers are strings in the program; here they are small integers.   *)
(* A socket id and a room id live in the same name space of the transport: *)
(* socket.io puts every socket in a broadcast group named by its own id,   *)
(* and socket.join(roomId) uses the client-supplied roomId as a group name.*)
(* Every handler is synchronous (no await), so a handler is one step.      *)
(***************************************************************************)
EXTENDS Integers, Sequences, FiniteSets

\* ---------------------------------------------------------------- bounds
NumSockets == 3
MaxHistory == 3

\* ------------------------------------------------------------- constants
MAX_USERS_DEFAULT == 2
ROOM_FULL == "Room is full"

NoId == 0
SocketIds == 1..NumSockets
\* the room names clients send: a name that is no socket's id, and the id of
\* one socket (roomId is an unvalidated string, so it may equal a socket
\* id); two names let a connection be in more than one room
PlainRoomIds == {NumSockets + 1}
RoomIds == {NumSockets} \cup PlainRoomIds
GroupIds == SocketIds \cup RoomIds

\* rooms        RoomManager.rooms: the Map, as the sequence of its values in
\*              insertion order; users is the room's Set of user ids
\* userSockets  SignalingHandler.userSockets: the ids in the table
\* conn         transport: "fresh" (id not assigned yet), "open", "closed"
\* groups       transport: broadcast group name -> sockets in the group
\* last         the event handled last, its registry result and the member
\*              set of its room before it was handled
\* sent         the emit calls of the handler that ran last
\* hist         when hist.on: the registry mutations in commit order and,
\*              per socket, the membership notifications in delivery order
\* fatal        a handler threw: 'uncaughtException' ran process.exit(1)
VARIABLES rooms, userSockets, conn, groups, last, sent, hist, fatal

vars == <<rooms, userSockets, conn, groups, last, sent, hist, fatal>>

\* ------------------------------------------------------------ RoomManager
NoResult == [tag |-> "none", id |-> NoId, users |-> {}, userCount |-> 0,
             maxUsers |-> 0, error |-> ""]
NullResult == [NoResult EXCEPT !.tag = "null"]
FullResult == [NoResult EXCEPT !.tag = "error", !.error = ROOM_FULL]

_sanitizeRoom(room) ==
    [tag |-> "room", id |-> room.id, users |-> room.users,
     userCount |-> Cardinality(room.users), maxUsers |-> room.maxUsers,
     error |-> ""]

MinOf(S) == CHOOSE i \in S : \A j \in S : i <= j

\* index of roomId in the Map (insertion order), 0 when absent
RoomIndex(rms, roomId) ==
    LET idx == {i \in 1..Len(rms) : rms[i].id = roomId}
    IN  IF idx = {} THEN 0 ELSE MinOf(idx)

roomExists(rms, roomId) == RoomIndex(rms, roomId) # 0

getRoomUsers(rms, roomId) ==
    IF roomExists(rms, roomId) THEN rms[RoomIndex(rms, roomId)].users ELSE {}

getRoomInfo(rms, roomId) ==
    IF roomExists(rms, roomId)
    THEN _sanitizeRoom(rms[RoomIndex(rms, roomId)]) ELSE NullResult

getRoomCount(rms) == Len(rms)

getAllRooms(rms) ==
    [i \in 1..Len(rms) |->
        [id |-> rms[i].id, userCount |-> Cardinality(rms[i].users),
         maxUsers |-> rms[i].maxUsers]]

getUserRoom(rms, userId) ==
    LET idx == {i \in 1..Len(rms) : userId \in rms[i].users}
    IN  IF idx = {} THEN NoId ELSE rms[MinOf(idx)].id

\* the snapshot is taken before the member is added
createRoom_staleSnapshot(rms, roomId, userId) ==
    LET withRoom == IF roomExists(rms, roomId) THEN rms
                    ELSE Append(rms, [id |-> roomId, users |-> {},
                                      maxUsers |-> MAX_USERS_DEFAULT])
        i == RoomIndex(withRoom, roomId)
        added == [withRoom EXCEPT ![i].users = @ \cup {userId}]
    IN  [rooms |-> added, result |-> _sanitizeRoom(withRoom[i])]

\* each registry operation yields the new Map and the returned value
createRoom(rms, roomId, userId) ==
    LET withRoom == IF roomExists(rms, roomId) THEN rms
                    ELSE Append(rms, [id |-> roomId, users |-> {},
                                      maxUsers |-> MAX_USERS_DEFAULT])
        i == RoomIndex(withRoom, roomId)
        added == [withRoom EXCEPT ![i].users = @ \cup {userId}]
    IN  [rooms |-> added, result |-> _sanitizeRoom(added[i])]

\* capacity test off by one (> for >=)
joinRoom_offByOne(rms, roomId, userId) ==
    LET i == RoomIndex(rms, roomId)
    IN  IF i = 0 THEN [rooms |-> rms, result |-> NullResult]
        ELSE IF Cardinality(rms[i].users) > rms[i].maxUsers
             THEN [rooms |-> rms, result |-> FullResult]
             ELSE LET added == [rms EXCEPT ![i].users = @ \cup {userId}]
                  IN  [rooms |-> added, result |-> _sanitizeRoom(added[i])]

\* the member is added before the capacity test
joinRoom_addsBeforeCheck(rms, roomId, userId) ==
    LET i == RoomIndex(rms, roomId)
    IN  IF i = 0 THEN [rooms |-> rms, result |-> NullResult]
        ELSE LET added == [rms EXCEPT ![i].users = @ \cup {userId}]
             IN  IF Cardinality(added[i].users) > added[i].maxUsers
                 THEN [rooms |-> added, result |-> FullResult]
                 ELSE [rooms |-> added, result |-> _sanitizeRoom(added[i])]

\* the snapshot is taken before the member is added
joinRoom_staleSnapshot(rms, roomId, userId) ==
    LET i == RoomIndex(rms, roomId)
    IN  IF i = 0 THEN [rooms |-> rms, result |-> NullResult]
        ELSE IF Cardinality(rms[i].users) >= rms[i].maxUsers
             THEN [rooms |-> rms, result |-> FullResult]
             ELSE LET added == [rms EXCEPT ![i].users = @ \cup {userId}]
                  IN  [rooms |-> added, result |-> _sanitizeRoom(rms[i])]

joinRoom(rms, roomId, userId) ==
    LET i == RoomIndex(rms, roomId)
    IN  IF i = 0 THEN [rooms |-> rms, result |-> NullResult]
        ELSE IF Cardinality(rms[i].users) >= rms[i].maxUsers
             THEN [rooms |-> rms, result |-> FullResult]
             ELSE LET added == [rms EXCEPT ![i].users = @ \cup {userId}]
                  IN  [rooms |-> added, result |-> _sanitizeRoom(added[i])]

\* the empty room is not cleaned up
leaveRoom_keepsEmptyRoom(rms, roomId, userId) ==
    LET i == RoomIndex(rms, roomId)
    IN  IF i = 0 THEN [rooms |-> rms, result |-> NullResult]
        ELSE LET removed == [rms EXCEPT ![i].users = @ \ {userId}]
             IN  [rooms |-> removed, result |-> _sanitizeRoom(removed[i])]

\* a user that is not in the room is reported as a missing room
leaveRoom_absentIsNull(rms, roomId, userId) ==
    LET i == RoomIndex(rms, roomId)
    IN  IF i = 0 \/ userId \notin rms[i].users
        THEN [rooms |-> rms, result |-> NullResult]
        ELSE LET removed == [rms EXCEPT ![i].users = @ \ {userId}]
             IN  IF removed[i].users = {}
                 THEN [rooms |-> SelectSeq(rms, LAMBDA r : r.id # roomId),
                       result |-> NullResult]
                 ELSE [rooms |-> removed, result |-> _sanitizeRoom(removed[i])]

leaveRoom(rms, roomId, userId) ==
    LET i == RoomIndex(rms, roomId)
    IN  IF i = 0 THEN [rooms |-> rms, result |-> NullResult]
        ELSE LET removed == [rms EXCEPT ![i].users = @ \ {userId}]
             IN  IF removed[i].users = {}
                 THEN [rooms |-> SelectSeq(rms, LAMBDA r : r.id # roomId),
                       result |-> NullResult]
                 ELSE [rooms |-> removed, result |-> _sanitizeRoom(removed[i])]

\* -------------------------------------------------------------- transport
\* socket.emit: to the socket itself
ToSelf(s) == {s}
\* io.to(room): every socket in the broadcast group
IoTo(grp, room) == grp[room]
\* socket.to(room): a broadcast to the group with the sender's own-id group
\* as the excluded group, so everything in that group is left out
SocketTo(grp, s, room) == grp[room] \ grp[s]
\* socket.join(room)
SocketJoin(grp, s, room) == [grp EXCEPT ![room] = @ \cup {s}]
\* the transport removes a closing socket from all groups before 'disconnect'
LeaveAll(grp, s) == [g \in GroupIds |-> grp[g] \ {s}]

Emit(event, to, roomId, userId, users, error) ==
    [event |-> event, to |-> to, roomId |-> roomId, userId |-> userId,
     users |-> users, error |-> error]

Request(op, s, roomId, target, result) ==
    [op |-> op, socket |-> s, roomId |-> roomId, target |-> target,
     result |-> result, before |-> getRoomUsers(rooms, roomId)]

\* ---------------------------------------------------------------- history
Commit(roomId, kind, userId, users) ==
    [roomId |-> roomId, kind |-> kind, userId |-> userId, users |-> users]

\* what a socket observes of a membership notification
Observed(e) ==
    Commit(e.roomId, IF e.event = "user-joined" THEN "join" ELSE "leave",
           e.userId, e.users)

IsMembershipEvent(e) == e.event \in {"user-joined", "user-left"}

RECURSIVE Deliver(_, _, _)
Deliver(box, emits, c) ==
    IF emits = <<>> THEN box
    ELSE Deliver(IF IsMembershipEvent(Head(emits)) /\ c \in Head(emits).to
                 THEN Append(box, Observed(Head(emits))) ELSE box,
                 Tail(emits), c)

\* the registry commits first, the emits of the handler follow
Observe(h, commits, emits) ==
    IF h.on
    THEN [on |-> TRUE, commits |-> h.commits \o commits,
          inbox |-> [c \in SocketIds |-> Deliver(h.inbox[c], emits, c)]]
    ELSE h

\* a socket id is known to clients only once the transport has assigned it
KnownRoomIds == {r \in RoomIds : r \in SocketIds => conn[r] # "fresh"}
KnownTargets == {t \in SocketIds : conn[t] # "fresh"}

\* ------------------------------------------------------------------- Init
Init ==
    /\ rooms = <<>>
    /\ userSockets = {}
    /\ conn = [s \in SocketIds |-> "fresh"]
    /\ groups = [g \in GroupIds |-> {}]
    /\ last = Request("init", NoId, NoId, NoId, NoResult)
    /\ sent = <<>>
    /\ hist = [on |-> FALSE, commits |-> <<>>,
               inbox |-> [c \in SocketIds |-> <<>>]]
    /\ fatal = FALSE

\* ------------------------------------------------- registry, called directly
RegCreateRoom(roomId, userId) ==
    LET r == createRoom(rooms, roomId, userId)
    IN  /\ rooms' = r.rooms
        /\ last' = Request("createRoom", userId, roomId, NoId, r.result)
        /\ UNCHANGED <<userSockets, conn, groups, sent, hist, fatal>>

RegJoinRoom(roomId, userId) ==
    LET r == joinRoom(rooms, roomId, userId)
    IN  /\ rooms' = r.rooms
        /\ last' = Request("joinRoom", userId, roomId, NoId, r.result)
        /\ UNCHANGED <<userSockets, conn, groups, sent, hist, fatal>>

RegLeaveRoom(roomId, userId) ==
    LET r == leaveRoom(rooms, roomId, userId)
    IN  /\ rooms' = r.rooms
        /\ last' = Request("leaveRoom", userId, roomId, NoId, r.result)
        /\ UNCHANGED <<userSockets, conn, groups, sent, hist, fatal>>

NextRegistry ==
    \E roomId \in RoomIds, userId \in SocketIds :
        \/ RegCreateRoom(roomId, userId)
        \/ RegJoinRoom(roomId, userId)
        \/ RegLeaveRoom(roomId, userId)

SpecRegistry == Init /\ [][NextRegistry]_vars

\* ------------------------------------------------------- SignalingHandler
\* this.userSockets.set(socket.id, socket) / this.userSockets.delete(socket.id)
userSocketsSet(table, s) == table \cup {s}
\* the entry is deleted under a key the table does not hold
userSocketsDelete_wrongKey(table, s) == table

userSocketsDelete(table, s) == table \ {s}

getStats ==
    [connectedUsers |-> Cardinality(userSockets),
     totalRooms |-> getRoomCount(rooms),
     rooms |-> getAllRooms(rooms)]

JoinError(s, error) == Emit("join-error", ToSelf(s), NoId, NoId, {}, error)

\* this.io.to(roomId).emit(USER_JOINED, {roomId, userId, users})
UserJoined(grp, s, roomId, users) ==
    Emit("user-joined", IoTo(grp, roomId), roomId, s, users, "")

\* room-created is broadcast to the room's group
RoomCreated_toRoom(s, room) ==
    Emit("room-created", IoTo(groups, room.id) \cup {s}, room.id, s,
         room.users, "")

\* socket.emit(ROOM_CREATED, {roomId: room.id, userId, users})
RoomCreated(s, room) ==
    Emit("room-created", ToSelf(s), room.id, s, room.users, "")

\* socket.to(roomId).emit(USER_LEFT, {userId, roomId})
UserLeft(grp, s, roomId) ==
    Emit("user-left", SocketTo(grp, s, roomId), roomId, s, {}, "")

handleConnection(s) ==
    /\ ~fatal
    /\ conn[s] = "fresh"
    /\ conn' = [conn EXCEPT ![s] = "open"]
    /\ groups' = SocketJoin(groups, s, s)
    /\ userSockets' = userSocketsSet(userSockets, s)
    /\ last' = Request("connection", s, NoId, NoId, NoResult)
    /\ sent' = <<>>
    /\ UNCHANGED <<rooms, hist, fatal>>

handleDisconnection(s) ==
    /\ ~fatal
    /\ conn[s] = "open"
    /\ conn' = [conn EXCEPT ![s] = "closed"]
    /\ LET left == LeaveAll(groups, s)
           roomId == getUserRoom(rooms, s)
           r == leaveRoom(rooms, roomId, s)
       IN  /\ groups' = left
           /\ IF roomId # NoId
              THEN /\ rooms' = r.rooms
                   /\ sent' = <<UserLeft(left, s, roomId)>>
                   /\ last' = Request("disconnect", s, roomId, NoId, r.result)
                   /\ hist' = Observe(hist,
                                 <<Commit(roomId, "leave", s,
                                          getRoomUsers(rooms', roomId))>>,
                                 sent')
              ELSE /\ rooms' = rooms
                   /\ sent' = <<>>
                   /\ last' = Request("disconnect", s, NoId, NoId, NoResult)
                   /\ hist' = hist
    /\ userSockets' = userSocketsDelete(userSockets, s)
    /\ UNCHANGED fatal

\* create-room calls createRoom without asking whether the room exists
OnCreateRoom_unchecked(s, roomId) ==
    /\ ~fatal
    /\ conn[s] = "open"
    /\ LET r == createRoom(rooms, roomId, s)
       IN  /\ rooms' = r.rooms
           /\ last' = Request("create-room", s, roomId, NoId, r.result)
           /\ groups' = SocketJoin(groups, s, roomId)
           /\ sent' = <<RoomCreated(s, r.result)>>
           /\ hist' = Observe(hist,
                         <<Commit(roomId, "join", s,
                                  getRoomUsers(rooms', roomId))>>,
                         sent')
    /\ UNCHANGED <<userSockets, conn, fatal>>

OnCreateRoom(s, roomId) ==
    /\ ~fatal
    /\ conn[s] = "open"
    /\ IF roomExists(rooms, roomId)
       THEN LET r == joinRoom(rooms, roomId, s)
            IN  /\ rooms' = r.rooms
                /\ last' = Request("create-room", s, roomId, NoId, r.result)
                /\ IF r.result.tag = "error"
                   THEN /\ sent' = <<JoinError(s, r.result.error)>>
                        /\ groups' = groups
                        /\ hist' = hist
                   ELSE /\ groups' = SocketJoin(groups, s, roomId)
                        /\ sent' = <<UserJoined(groups', s, roomId,
                                                r.result.users)>>
                        /\ hist' = Observe(hist,
                                      <<Commit(roomId, "join", s,
                                               getRoomUsers(rooms', roomId))>>,
                                      sent')
       ELSE LET r == createRoom(rooms, roomId, s)
            IN  /\ rooms' = r.rooms
                /\ last' = Request("create-room", s, roomId, NoId, r.result)
                /\ groups' = SocketJoin(groups, s, roomId)
                /\ sent' = <<RoomCreated(s, r.result)>>
                /\ hist' = Observe(hist,
                              <<Commit(roomId, "join", s,
                                       getRoomUsers(rooms', roomId))>>,
                              sent')
    /\ UNCHANGED <<userSockets, conn, fatal>>

OnJoinRoom(s, roomId) ==
    /\ ~fatal
    /\ conn[s] = "open"
    /\ LET j == joinRoom(rooms, roomId, s)
           r == IF j.result.tag = "null" THEN createRoom(rooms, roomId, s)
                ELSE j
       IN  /\ rooms' = r.rooms
           /\ last' = Request("join-room", s, roomId, NoId, r.result)
           /\ IF r.result.tag = "error"
              THEN /\ sent' = <<JoinError(s, r.result.error)>>
                   /\ groups' = groups
                   /\ hist' = hist
              ELSE /\ groups' = SocketJoin(groups, s, roomId)
                   /\ sent' = <<UserJoined(groups', s, roomId,
                                           r.result.users)>>
                   /\ hist' = Observe(hist,
                                 <<Commit(roomId, "join", s,
                                          getRoomUsers(rooms', roomId))>>,
                                 sent')
    /\ UNCHANGED <<userSockets, conn, fatal>>

\* recipients of a relayed signaling message
_forwardSignalingMessage(grp, s, roomId, targetUserId) ==
    IF targetUserId # NoId THEN SocketTo(grp, s, targetUserId)
    ELSE SocketTo(grp, s, roomId)

\* offer / answer / ice-candidate: payload plus fromUserId
Relay(op, s, roomId, targetUserId) ==
    /\ ~fatal
    /\ conn[s] = "open"
    /\ sent' = <<Emit(op,
                      _forwardSignalingMessage(groups, s, roomId, targetUserId),
                      NoId, s, {}, "")>>
    /\ last' = Request(op, s, roomId, targetUserId, NoResult)
    /\ UNCHANGED <<rooms, userSockets, conn, groups, hist, fatal>>

OnOffer(s, roomId, targetUserId) == Relay("offer", s, roomId, targetUserId)

OnAnswer(s, roomId, targetUserId) == Relay("answer", s, roomId, targetUserId)

OnIceCandidate(s, roomId, targetUserId) ==
    Relay("ice-candidate", s, roomId, targetUserId)

OnMediaStateChange(s, roomId) ==
    /\ ~fatal
    /\ conn[s] = "open"
    /\ sent' = <<Emit("media-state-change", SocketTo(groups, s, roomId),
                      NoId, s, {}, "")>>
    /\ last' = Request("media-state-change", s, roomId, NoId, NoResult)
    /\ UNCHANGED <<rooms, userSockets, conn, groups, hist, fatal>>

\* end-call also takes the sender out of the room
OnEndCall_leavesRoom(s, roomId) ==
    /\ ~fatal
    /\ conn[s] = "open"
    /\ rooms' = leaveRoom(rooms, roomId, s).rooms
    /\ sent' = <<Emit("call-ended", SocketTo(groups, s, roomId),
                      NoId, s, {}, "")>>
    /\ last' = Request("end-call", s, roomId, NoId, NoResult)
    /\ UNCHANGED <<userSockets, conn, groups, hist, fatal>>

OnEndCall(s, roomId) ==
    /\ ~fatal
    /\ conn[s] = "open"
    /\ sent' = <<Emit("call-ended", SocketTo(groups, s, roomId),
                      NoId, s, {}, "")>>
    /\ last' = Request("end-call", s, roomId, NoId, NoResult)
    /\ UNCHANGED <<rooms, userSockets, conn, groups, hist, fatal>>

\* payloads of offer/answer/ice-candidate: a roomId without a target, or a
\* target (the roomId is then not used)
SignalInputs ==
    {<<r, NoId>> : r \in KnownRoomIds} \cup {<<NoId, t>> : t \in KnownTargets}

MembershipNext ==
    \/ \E s \in SocketIds : handleConnection(s)
    \/ \E s \in SocketIds : handleDisconnection(s)
    \/ \E s \in SocketIds, roomId \in KnownRoomIds : OnCreateRoom(s, roomId)
    \/ \E s \in SocketIds, roomId \in KnownRoomIds : OnJoinRoom(s, roomId)

RelayNext ==
    \/ \E s \in SocketIds, d \in SignalInputs : OnOffer(s, d[1], d[2])
    \/ \E s \in SocketIds, d \in SignalInputs : OnAnswer(s, d[1], d[2])
    \/ \E s \in SocketIds, d \in SignalInputs : OnIceCandidate(s, d[1], d[2])
    \/ \E s \in SocketIds, roomId \in KnownRoomIds : OnMediaStateChange(s, roomId)
    \/ \E s \in SocketIds, roomId \in KnownRoomIds : OnEndCall(s, roomId)

\* the messages a client can emit; every handler starts by destructuring
\* its payload (const { roomId } = data)
InboundKinds ==
    {"create-room", "join-room", "offer", "answer", "ice-candidate",
     "media-state-change", "end-call"}

ThrownResult == [NoResult EXCEPT !.tag = "throw"]

\* a message emitted without payload: data is undefined, the destructuring
\* throws a TypeError out of the listener before anything else is done, and
\* the process-level 'uncaughtException' handler exits the process
OnMissingPayload(op, s) ==
    /\ ~fatal
    /\ conn[s] = "open"
    /\ fatal' = TRUE
    /\ last' = Request(op, s, NoId, NoId, ThrownResult)
    /\ sent' = <<>>
    /\ UNCHANGED <<rooms, userSockets, conn, groups, hist>>

FatalNext == \E s \in SocketIds, op \in InboundKinds : OnMissingPayload(op, s)

Next == MembershipNext \/ RelayNext \/ FatalNext

Spec == Init /\ [][Next]_vars

\* the same program with the history recorded, for at most MaxHistory
\* registry mutations; relays neither commit nor notify membership
InitHistory ==
    /\ rooms = <<>>
    /\ userSockets = {}
    /\ conn = [s \in SocketIds |-> "fresh"]
    /\ groups = [g \in GroupIds |-> {}]
    /\ last = Request("init", NoId, NoId, NoId, NoResult)
    /\ sent = <<>>
    /\ hist = [on |-> TRUE, commits |-> <<>>,
               inbox |-> [c \in SocketIds |-> <<>>]]
    /\ fatal = FALSE

NextHistory == Len(hist.commits) < MaxHistory /\ MembershipNext

SpecHistory == InitHistory /\ [][NextHistory]_vars

\* ------------------------------------------------------------- properties
Count(rms, roomId) == Cardinality(getRoomUsers(rms, roomId))

Capacity(rms, roomId) == rms[RoomIndex(rms, roomId)].maxUsers

IsFull(rms, roomId) ==
    roomExists(rms, roomId) /\ Count(rms, roomId) >= Capacity(rms, roomId)

WithinCapacity(rms) ==
    \A i \in 1..Len(rms) : Cardinality(rms[i].users) <= rms[i].maxUsers

\* number of emits of the last handler that reached socket c and satisfy P
Received(c, P(_)) ==
    Cardinality({i \in DOMAIN sent : c \in sent[i].to /\ P(sent[i])})

\* C1 as stated: after every joinRoom call, whatever createRoom, joinRoom
\* and leaveRoom calls came before, every room has member count <= capacity;
\* and a joinRoom on a room with count >= capacity returns 'Room is full' and
\* leaves the member set as it was.
C1_CapacityAfterEveryJoin ==
    last.op = "joinRoom" =>
        /\ WithinCapacity(rooms)
        /\ (roomExists(rooms, last.roomId)
            /\ Cardinality(last.before) >= Capacity(rooms, last.roomId))
           => /\ last.result = FullResult
              /\ getRoomUsers(rooms, last.roomId) = last.before

\* C1 amended: joinRoom never takes a room past its capacity. A joinRoom on
\* a room with count >= capacity returns 'Room is full' and leaves the whole
\* registry unchanged; a joinRoom that succeeds leaves its room with
\* count <= capacity; every room within capacity before a joinRoom is within
\* capacity after it.
C1_JoinKeepsCapacity ==
    [][last'.op = "joinRoom" =>
        /\ IsFull(rooms, last'.roomId)
           => (last'.result = FullResult /\ rooms' = rooms)
        /\ last'.result.tag = "room"
           => Count(rooms', last'.roomId) <= Capacity(rooms', last'.roomId)
        /\ \A i \in 1..Len(rooms) :
              Cardinality(rooms[i].users) <= rooms[i].maxUsers
              => Count(rooms', rooms[i].id) <= rooms[i].maxUsers]_vars

C1_FullJoinRejected ==
    /\ last.op = "joinRoom"
    /\ last.result = FullResult
    /\ Cardinality(last.before) = MAX_USERS_DEFAULT
    /\ getRoomUsers(rooms, last.roomId) = last.before

\* C2: a create-room or join-room request for a full room sends exactly one
\* join-error ('Room is full') to the requester only, sends nothing else,
\* changes no room, and adds nobody to a broadcast group.
C2_FullRoomRequest ==
    [][(last'.op \in {"create-room", "join-room"}
        /\ IsFull(rooms, last'.roomId))
       => /\ sent' = <<JoinError(last'.socket, ROOM_FULL)>>
          /\ rooms' = rooms
          /\ groups' = groups]_vars

C2_FullRoomRequested ==
    /\ last.op \in {"create-room", "join-room"}
    /\ last.result = FullResult
    /\ Cardinality(last.before) = MAX_USERS_DEFAULT
    /\ last.socket \notin last.before
    /\ sent = <<JoinError(last.socket, ROOM_FULL)>>

NoEmptyRoom == \A i \in 1..Len(rooms) : rooms[i].users # {}

\* C3: the registry never stores a room without members; and right after a
\* leaveRoom that removes the last member, roomExists is false, getAllRooms
\* does not list the room and getRoomCount is one less.
C3_NoEmptyRoom ==
    /\ []NoEmptyRoom
    /\ [][(last'.op = "leaveRoom"
           /\ getRoomUsers(rooms, last'.roomId) = {last'.socket})
          => /\ ~roomExists(rooms', last'.roomId)
             /\ \A i \in DOMAIN getAllRooms(rooms') :
                   getAllRooms(rooms')[i].id # last'.roomId
             /\ getRoomCount(rooms') = getRoomCount(rooms) - 1]_vars

C3_LastMemberLeft ==
    /\ last.op = "leaveRoom"
    /\ last.before = {last.socket}
    /\ ~roomExists(rooms, last.roomId)
    /\ getRoomCount(rooms) >= 1

\* C4 as stated: when a create-room or join-room request adds B to an
\* existing room R, every member of R after the join (B included) receives
\* exactly one user-joined with roomId R, userId B and users = the member
\* set of R, and no connection outside R receives it.
C4_JoinFanOut ==
    (last.op \in {"create-room", "join-room"}
     /\ last.result.tag = "room" /\ last.before # {})
    => LET members == getRoomUsers(rooms, last.roomId)
           IsJoined(e) == /\ e.event = "user-joined"
                          /\ e.roomId = last.roomId
                          /\ e.userId = last.socket
                          /\ e.users = members
       IN  \A c \in SocketIds :
              Received(c, IsJoined) = IF c \in members THEN 1 ELSE 0

\* C5 as stated: an offer, answer or ice-candidate from A with target B
\* (another open connection) reaches B exactly once, tagged with sender A,
\* and reaches no other connection.
C5_TargetedRelay ==
    (last.op \in {"offer", "answer", "ice-candidate"}
     /\ last.target # NoId /\ last.target # last.socket
     /\ conn[last.target] = "open")
    => LET IsRelayed(e) == e.event = last.op /\ e.userId = last.socket
       IN  \A c \in SocketIds :
              Received(c, IsRelayed) = IF c = last.target THEN 1 ELSE 0

RelayedEvent(op) == IF op = "end-call" THEN "call-ended" ELSE op

\* C6 as stated: an untargeted offer, answer, ice-candidate,
\* media-state-change or end-call from A for room R reaches exactly the
\* registry members of R other than A, each once, tagged with sender A.
C6_UntargetedRelay ==
    (last.op \in {"offer", "answer", "ice-candidate", "media-state-change",
                  "end-call"}
     /\ last.target = NoId)
    => LET IsRelayed(e) == /\ e.event = RelayedEvent(last.op)
                           /\ e.userId = last.socket
       IN  \A c \in SocketIds :
              Received(c, IsRelayed) =
                 IF c \in getRoomUsers(rooms, last.roomId) \ {last.socket}
                 THEN 1 ELSE 0

\* C7 as stated: when A, a member of room R, disconnects, A is removed from
\* R and exactly one user-left (userId A, roomId R) reaches each remaining
\* member of R and nobody else.
C7_DisconnectNotifies ==
    [][last'.op = "disconnect" =>
        \A i \in 1..Len(rooms) :
           last'.socket \in rooms[i].users
           => LET R == rooms[i].id
                  A == last'.socket
                  remaining == getRoomUsers(rooms', R)
              IN  /\ A \notin remaining
                  /\ \A c \in SocketIds :
                        Cardinality({k \in DOMAIN sent' :
                                        /\ c \in sent'[k].to
                                        /\ sent'[k].event = "user-left"
                                        /\ sent'[k].userId = A
                                        /\ sent'[k].roomId = R})
                        = IF c \in remaining THEN 1 ELSE 0]_vars

OpenConnections == {s \in SocketIds : conn[s] = "open"}

\* C8: the connection table holds exactly the connections that have
\* connected and not yet disconnected, getStats().connectedUsers is their
\* number, and a connection whose disconnection was handled is not in it.
C8_TableIsOpenConnections ==
    /\ userSockets = OpenConnections
    /\ getStats.connectedUsers = Cardinality(OpenConnections)
    /\ last.op = "disconnect" => last.socket \notin userSockets

C8_DisconnectedFromSeveralRooms ==
    /\ last.op = "disconnect"
    /\ last.roomId # NoId
    /\ getUserRoom(rooms, last.socket) # NoId
    /\ last.socket \notin userSockets

\* C9 as stated: when a member of a room R at capacity disconnects, R has
\* one member fewer and the same capacity, and a join by a connection that
\* is not a member then succeeds.
C9_DisconnectFreesCapacity ==
    [][last'.op = "disconnect" =>
        \A i \in 1..Len(rooms) :
           (last'.socket \in rooms[i].users
            /\ Cardinality(rooms[i].users) >= rooms[i].maxUsers)
           => LET R == rooms[i].id
              IN  /\ roomExists(rooms', R)
                  /\ Count(rooms', R) = Cardinality(rooms[i].users) - 1
                  /\ Capacity(rooms', R) = rooms[i].maxUsers
                  /\ \A d \in SocketIds \ getRoomUsers(rooms', R) :
                        joinRoom(rooms', R, d).result.tag = "room"]_vars

ForRoom(seq, roomId) == SelectSeq(seq, LAMBDA e : e.roomId = roomId)

Describes(n, c) ==
    /\ n.roomId = c.roomId
    /\ n.kind = c.kind
    /\ n.userId = c.userId
    /\ n.kind = "join" => n.users = c.users

RECURSIVE InCommitOrder(_, _)
InCommitOrder(ns, cs) ==
    IF ns = <<>> THEN TRUE
    ELSE IF cs = <<>> THEN FALSE
    ELSE IF Describes(Head(ns), Head(cs))
         THEN InCommitOrder(Tail(ns), Tail(cs))
         ELSE InCommitOrder(ns, Tail(cs))

\* C10: for every socket and room, the user-joined and user-left
\* notifications the socket has observed for the room are, in order, among
\* the registry mutations committed on the room (a user-joined carries the
\* member set its mutation left); a handler emits one notification at most,
\* and it describes the mutation committed last.
C10_NotificationOrder ==
    /\ \A c \in SocketIds, R \in RoomIds :
          InCommitOrder(ForRoom(hist.inbox[c], R), ForRoom(hist.commits, R))
    /\ Len(sent) <= 1
    /\ \A k \in DOMAIN sent :
          IsMembershipEvent(sent[k])
          => /\ hist.commits # <<>>
             /\ Describes(Observed(sent[k]),
                          hist.commits[Len(hist.commits)])

C10_JoinThenLeaveObserved ==
    \E c \in SocketIds, R \in RoomIds :
       LET seen == ForRoom(hist.inbox[c], R)
       IN  /\ Len(seen) >= 2
           /\ seen[1].kind = "join"
           /\ seen[Len(seen)].kind = "leave"

RoomsOf(rms, userId) == {i \in 1..Len(rms) : userId \in rms[i].users}

\* C11 as stated: in every state reachable through router events each
\* connection is a member of at most one room of the registry.
C11_OneRoomAtATime ==
    \A s \in SocketIds : Cardinality(RoomsOf(rooms, s)) <= 1

RelayKinds ==
    {"offer", "answer", "ice-candidate", "media-state-change", "end-call"}

\* C12 as stated: no inbound message, whatever its payload (a missing
\* payload included), makes a handler throw, which is fatal to the process;
\* a relay to a target that is not connected reaches nobody.
C12_NoFatalError ==
    /\ ~fatal
    /\ (last.op \in RelayKinds /\ last.target # NoId
        /\ conn[last.target] # "open")
       => \A k \in DOMAIN sent : sent[k].to = {}

\* C13: createRoom called again with the same room and member changes
\* nothing: the registry (that room's member set and every other room) and
\* the returned snapshot (members, member count) are as after the first call.
C13_CreateRoomIdempotent ==
    last.op = "createRoom" =>
        LET again == createRoom(rooms, last.roomId, last.socket)
        IN  /\ again.rooms = rooms
            /\ again.result = last.result
            /\ last.result.userCount = Count(rooms, last.roomId)

C13_CreateRoomRepeated ==
    /\ last.op = "createRoom"
    /\ last.socket \in last.before
    /\ Cardinality(last.before) >= 2
    /\ getRoomCount(rooms) >= 2

\* C14: leaveRoom for a user that is not a member of the existing room
\* returns the room's snapshot with the member set as it was, keeps the
\* room, changes no other room and reports no error.
C14_LeaveOfAbsentMember ==
    [][(last'.op = "leaveRoom"
        /\ roomExists(rooms, last'.roomId)
        /\ last'.socket \notin getRoomUsers(rooms, last'.roomId))
       => /\ rooms' = rooms
          /\ last'.result = getRoomInfo(rooms, last'.roomId)
          /\ last'.result.tag = "room"
          /\ last'.result.users = getRoomUsers(rooms, last'.roomId)
          /\ fatal' = fatal]_vars

C14_AbsentMemberLeft ==
    /\ last.op = "leaveRoom"
    /\ last.before # {}
    /\ last.socket \notin last.before
    /\ last.result.tag = "room"
    /\ getRoomCount(rooms) >= 2

\* C15 as stated: a join-room request for a room that does not exist
\* surfaces no error; it creates the room with the requester as sole member,
\* puts the requester in the broadcast group and emits one user-joined with
\* users = [requester], which the requester alone receives.
C15_JoinFallsBackToCreate ==
    (last.op = "join-room" /\ last.result.tag # "throw" /\ last.before = {})
    => /\ last.result.tag = "room"
       /\ getRoomUsers(rooms, last.roomId) = {last.socket}
       /\ last.socket \in groups[last.roomId]
       /\ sent = <<Emit("user-joined", {last.socket}, last.roomId,
                        last.socket, {last.socket}, "")>>

\* C16: room-created is emitted only by a create-room request for a room
\* that did not exist, to the requester only, with users = [requester]; a
\* create-room request for an existing room emits no room-created.
C16_RoomCreatedOnlyOnCreate ==
    [][/\ \A k \in DOMAIN sent' :
             sent'[k].event = "room-created"
             => /\ last'.op = "create-room"
                /\ ~roomExists(rooms, last'.roomId)
                /\ sent'[k].to = {last'.socket}
                /\ sent'[k].users = {last'.socket}
                /\ sent'[k].roomId = last'.roomId
       /\ (last'.op = "create-room" /\ roomExists(rooms, last'.roomId))
          => \A k \in DOMAIN sent' : sent'[k].event # "room-created"]_vars

\* a room named by a connected socket's id was created by somebody else
C16_RoomCreated ==
    /\ last.op = "create-room"
    /\ last.before = {}
    /\ sent = <<RoomCreated(last.socket, getRoomInfo(rooms, last.roomId))>>
    /\ groups[last.roomId] # {last.socket}

\* C17: handling an offer, answer, ice-candidate, media-state-change or
\* end-call leaves the registry, the broadcast groups and the connection
\* table unchanged; end-call does not take the sender out of its room.
C17_RelayChangesNothing ==
    [][last'.op \in RelayKinds
       => /\ rooms' = rooms
          /\ groups' = groups
          /\ userSockets' = userSockets]_vars

C17_EndCallByMember ==
    /\ last.op = "end-call"
    /\ last.socket \in getRoomUsers(rooms, last.roomId)
    /\ Len(sent) = 1
    /\ sent[1].event = "call-ended"
    /\ sent[1].to # {}

\* C18 as stated, for the room names that are no socket's id: the sockets
\* in the broadcast group R are the registry's members of R.
C18_GroupIsMemberSet ==
    \A R \in PlainRoomIds : groups[R] = getRoomUsers(rooms, R)

\* C19: through the router no room ever has more members than its
\* capacity, and a request adds a member to an existing room only when the
\* room is below capacity (createRoom runs only for a room that is absent).
C19_RouterKeepsCapacity ==
    /\ []WithinCapacity(rooms)
    /\ [][(roomExists(rooms, last'.roomId)
           /\ getRoomUsers(rooms', last'.roomId)
              # getRoomUsers(rooms, last'.roomId)
           /\ last'.op \in {"create-room", "join-room"})
          => Count(rooms, last'.roomId) < Capacity(rooms, last'.roomId)]_vars

C19_RoomFilled ==
    /\ last.op \in {"create-room", "join-room"}
    /\ last.result.tag = "room"
    /\ last.before # {}
    /\ last.socket \notin last.before
    /\ Count(rooms, last.roomId) = Capacity(rooms, last.roomId)

\* C20 as stated: every member stored in a room of the registry is a
\* connection that is registered (connected and not yet disconnected).
C20_NoGhostMembers ==
    \A i \in 1..Len(rooms) : rooms[i].users \subseteq userSockets

====
